---- MODULE Spec2Model ----
(***************************************************************************)
(* A model of lib/bb/__init__.py: the BitBake messaging facade (the        *)
(* BBLoggerMixin methods and the bb.plain/debug/note/.../fatal functions), *)
(* the BBHandledException marker and the MultiprocessingContext proxy.     *)
(***************************************************************************)
EXTENDS Integers, Sequences, FiniteSets, TLC

VARIABLES
    worker_pid,              \* bb.event.worker_pid: 0 in the controller
    loggerDefaultDomains,    \* bb.msg.loggerDefaultDomains: logger name -> threshold
    loggerDefaultLogLevel,   \* bb.msg.loggerDefaultLogLevel: the global floor
    call,                    \* the last call made: operation, inputs, outcome
    sent,                    \* the records the last call handed to the handlers
    failure,                 \* the exception unwinding the stack, or None
    handled,                 \* what the top-level handler did with the last failure
    pc,                      \* per thread: position inside a warnonce/erroronce call
    pending,                 \* per thread: the record it created, not yet filtered
    seen,                    \* the dedup cache: (levelno, msg) pairs already shown
    sink,                    \* the records that passed the show-once filter, in order
    completed,               \* (family, body) -> number of calls that returned
    inst,                    \* the MultiprocessingContext instance's __dict__
    ctxNames,                \* names the "fork" context defines
    mpNames                  \* names the multiprocessing module defines

vars == <<worker_pid, loggerDefaultDomains, loggerDefaultLogLevel, call, sent,
          failure, handled, pc, pending, seen, sink, completed, inst,
          ctxNames, mpNames>>

msgVars == <<worker_pid, loggerDefaultDomains, loggerDefaultLogLevel>>
onceVars == <<pc, pending, seen, sink, completed>>
factoryVars == <<inst, ctxNames, mpNames>>

----------------------------------------------------------------------------
(* Bounds of the model. *)

MaxLevel == 4       \* integer debug levels range over -1 .. MaxLevel
MaxFrags == 2       \* a call passes 1 .. MaxFrags text fragments
MaxHops == 2        \* layers a failure is forwarded through
MaxThreads == 2     \* threads calling warnonce/erroronce
MaxOnceCalls == 5   \* warnonce/erroronce calls made in one behaviour

----------------------------------------------------------------------------
(* Severities: the logging module's levels and the levels the mixin adds. *)

DEBUG == 10
INFO == 20
WARNING == 30
ERROR == 40
CRITICAL == 50

PLAIN == INFO + 1
VERBOSE == INFO - 1
\* verbnote logging at plain's level
VERBNOTE_as_plain == INFO + 1

VERBNOTE == INFO + 2
\* warnonce logging at erroronce's level
WARNONCE_as_erroronce == ERROR - 1

WARNONCE == WARNING - 1
ERRORONCE == ERROR - 1

\* logger.setLevel(logging.DEBUG - 2) on the "BitBake" logger
BitBakeLevel == DEBUG - 2

None == [exc |-> "none"]
NoCall == [op |-> "none"]

mainlogger == "BitBake.Main"
LoggerNames == {"BitBake.Main", "BitBake.Fetcher"}

----------------------------------------------------------------------------
(* Values a caller passes. A debug level is tagged with its Python type:   *)
(* v is the number of an int or of an integral float (2.0), s the text of  *)
(* a str.                                                                  *)

IntLvl(n) == [k |-> "int", v |-> n, s |-> ""]
FloatLvl(n) == [k |-> "float", v |-> n, s |-> ""]
StrLvl(t) == [k |-> "str", v |-> 0, s |-> t]
NoneLvl == [k |-> "NoneType", v |-> 0, s |-> ""]

Levels == {IntLvl(n) : n \in -1..MaxLevel} \cup {FloatLvl(2), StrLvl("dbg"), NoneLvl}

Frags == {"a", "b"}
ArgLists == UNION {[1..n -> Frags] : n \in 1..MaxFrags}
Metadata == {{}, {"key"}}
Thresholds == {2, 9, 10}
Floors == {BitBakeLevel, DEBUG - 1, INFO}

\* ''.join(args)
RECURSIVE Join(_)
Join(args) == IF args = <<>> THEN "" ELSE Head(args) \o Join(Tail(args))

\* repr() of a debug level
DigitStr(n) == CASE n = 0 -> "0" [] n = 1 -> "1" [] n = 2 -> "2" [] n = 3 -> "3"
                 [] n = 4 -> "4" [] n = 5 -> "5" [] OTHER -> "?"
Repr(level) == CASE level.k = "int" ->
                      IF level.v < 0 THEN "-" \o DigitStr(-level.v) ELSE DigitStr(level.v)
                 [] level.k = "float" -> DigitStr(level.v) \o ".0"
                 [] level.k = "str" -> "'" \o level.s \o "'"
                 [] OTHER -> "None"

----------------------------------------------------------------------------
(* logging.Logger, as far as the facade uses it. *)

Record(name, levelno, msg, extra) ==
    [name |-> name, levelno |-> levelno, msg |-> msg, extra |-> extra]

\* Logger.getEffectiveLevel: the loggers under "BitBake" leave their own level
\* unset and inherit the "BitBake" logger's.
EffectiveLevel(name) == BitBakeLevel

\* Logger.log(level, msg): with logging.raiseExceptions = False a level that is
\* no int is dropped silently; otherwise the record is made when the logger is
\* enabled for the level.
LoggerLog(name, level, msg, extra) ==
    IF level.k # "int" THEN <<>>
    ELSE IF level.v > 0 /\ level.v >= EffectiveLevel(name)
         THEN <<Record(name, level.v, msg, extra)>>
         ELSE <<>>

\* what a call gives back: the records it handed on, the exception it raised,
\* whether it read the domain table, whether it reached self.log
Outcome(recs, exc, looked, proceeded) ==
    [sent |-> recs, raised |-> exc, looked |-> looked, proceeded |-> proceeded]

Returned(recs) == Outcome(recs, "none", FALSE, FALSE)

----------------------------------------------------------------------------
(* BBLoggerMixin.bbdebug and the module-level debug(). *)

\* loglevel = logging.DEBUG - level + 1
DebugLevel(n) == DEBUG - n + 1

\* the domain check with >= for >
DomainSuppressed_ge(name, loglevel) ==
    /\ name \in DOMAIN loggerDefaultDomains
    /\ loglevel >= loggerDefaultDomains[name]

\* self.name in loggerDefaultDomains and loglevel > loggerDefaultDomains[self.name]
DomainSuppressed(name, loglevel) ==
    /\ name \in DOMAIN loggerDefaultDomains
    /\ loglevel > loggerDefaultDomains[name]

\* the floor check left out
FloorSuppressed_never(loglevel) == FALSE

\* loglevel < bb.msg.loggerDefaultLogLevel
FloorSuppressed(loglevel) == loglevel < loggerDefaultLogLevel

\* the early returns taken in a worker too
Filtered_any_role(name, loglevel) ==
    DomainSuppressed(name, loglevel) \/ FloorSuppressed(loglevel)

\* the two early returns, taken only when bb.event.worker_pid is not set
Filtered(name, loglevel) ==
    /\ worker_pid = 0
    /\ DomainSuppressed(name, loglevel) \/ FloorSuppressed(loglevel)

\* mainlogger.warning("Invalid arguments in bbdebug: %s" % repr((level, msg)))
InvalidArguments(level, msg) ==
    IF level.k # "int"
    THEN LoggerLog(mainlogger, IntLvl(WARNING),
                   "Invalid arguments in bbdebug: (" \o Repr(level) \o ", '" \o msg \o "')",
                   {})
    ELSE <<>>

bbdebug(name, level, msg) ==
    IF level.k \notin {"int", "float"}
    THEN \* logging.DEBUG - level raises TypeError for a str or None
         Outcome(<<>>, "TypeError", FALSE, FALSE)
    ELSE LET loglevel == [level EXCEPT !.v = DebugLevel(level.v)]
         IN IF Filtered(name, loglevel.v)
            THEN Outcome(<<>>, "none", worker_pid = 0, FALSE)
            ELSE Outcome(InvalidArguments(level, msg) \o LoggerLog(name, loglevel, msg, {}),
                         "none", worker_pid = 0, TRUE)

\* mainlogger.warning("Passed invalid debug level '%s' to bb.debug", lvl)
InvalidLevel(lvl) ==
    LoggerLog(mainlogger, IntLvl(WARNING),
              "Passed invalid debug level '" \o lvl.s \o "' to bb.debug", {})

debug(lvl, args) ==
    IF lvl.k = "str"
    THEN LET o == bbdebug(mainlogger, IntLvl(1), Join(<<lvl.s>> \o args))
         IN [o EXCEPT !.sent = InvalidLevel(lvl) \o o.sent]
    ELSE bbdebug(mainlogger, lvl, Join(args))

----------------------------------------------------------------------------
(* The other mixin methods and messaging functions. *)

verbose(name, msg) == Returned(LoggerLog(name, IntLvl(VERBOSE), msg, {}))

plain(args) == Returned(LoggerLog(mainlogger, IntLvl(PLAIN), Join(args), {}))

note(args) == Returned(LoggerLog(mainlogger, IntLvl(INFO), Join(args), {}))

verbnote(args) == Returned(LoggerLog(mainlogger, IntLvl(VERBNOTE), Join(args), {}))

warn(args) == Returned(LoggerLog(mainlogger, IntLvl(WARNING), Join(args), {}))

error(args, kwargs) == Returned(LoggerLog(mainlogger, IntLvl(ERROR), Join(args), kwargs))

\* fatal without its raise
fatal_returns(args, kwargs) ==
    Returned(LoggerLog(mainlogger, IntLvl(CRITICAL), Join(args), kwargs))

\* fatal raising an exception that is no BBHandledException
fatal_unmarked(args, kwargs) ==
    Outcome(LoggerLog(mainlogger, IntLvl(CRITICAL), Join(args), kwargs),
            "Exception", FALSE, FALSE)

fatal(args, kwargs) ==
    Outcome(LoggerLog(mainlogger, IntLvl(CRITICAL), Join(args), kwargs),
            "BBHandledException", FALSE, FALSE)

\* isinstance(exc, BBHandledException)
IsHandled(exc) == exc = "BBHandledException"

----------------------------------------------------------------------------
(* Actions of the messaging facade: one per call. A call is made only when *)
(* no failure is unwinding the stack.                                      *)

Apply(op, name, lvl, args, kwargs, o) ==
    /\ call' = [op |-> op, name |-> name, lvl |-> lvl, args |-> args,
                kwargs |-> kwargs, raised |-> o.raised, looked |-> o.looked,
                proceeded |-> o.proceeded]
    /\ sent' = o.sent
    /\ failure' = IF o.raised = "none" THEN None
                  ELSE [exc |-> o.raised, origin |-> op, hops |-> 0,
                        wasMarked |-> IsHandled(o.raised),
                        reports |-> Len(o.sent)]
    /\ handled' = None
    /\ UNCHANGED <<msgVars, onceVars, factoryVars>>

Debug ==
    /\ failure = None
    /\ \E lvl \in Levels, args \in ArgLists :
         Apply("debug", mainlogger, lvl, args, {}, debug(lvl, args))

\* logger.debug / debug2 / debug3 on a logger of the BitBake hierarchy
LoggerDebug ==
    /\ failure = None
    /\ \E name \in LoggerNames, n \in 1..3, msg \in Frags :
         Apply("bbdebug", name, IntLvl(n), <<msg>>, {}, bbdebug(name, IntLvl(n), msg))

LoggerVerbose ==
    /\ failure = None
    /\ \E name \in LoggerNames, msg \in Frags :
         Apply("verbose", name, NoneLvl, <<msg>>, {}, verbose(name, msg))

Plain ==
    /\ failure = None
    /\ \E args \in ArgLists :
         Apply("plain", mainlogger, NoneLvl, args, {}, plain(args))

Note ==
    /\ failure = None
    /\ \E args \in ArgLists :
         Apply("note", mainlogger, NoneLvl, args, {}, note(args))

Verbnote ==
    /\ failure = None
    /\ \E args \in ArgLists :
         Apply("verbnote", mainlogger, NoneLvl, args, {}, verbnote(args))

Warn ==
    /\ failure = None
    /\ \E args \in ArgLists :
         Apply("warn", mainlogger, NoneLvl, args, {}, warn(args))

Error ==
    /\ failure = None
    /\ \E args \in ArgLists, kwargs \in Metadata :
         Apply("error", mainlogger, NoneLvl, args, kwargs, error(args, kwargs))

Fatal ==
    /\ failure = None
    /\ \E args \in ArgLists, kwargs \in Metadata :
         Apply("fatal", mainlogger, NoneLvl, args, kwargs, fatal(args, kwargs))

----------------------------------------------------------------------------
(* The way of a failure up the stack: layers that forward it, a layer that *)
(* reports it and marks it, and the top-level handler.                     *)

\* a failure that no messaging call raised and nobody has reported
RaiseOther ==
    /\ failure = None
    /\ Apply("other", mainlogger, NoneLvl, <<>>, {}, Outcome(<<>>, "Exception", FALSE, FALSE))

\* a layer passes the failure on as it is
Forward ==
    /\ failure # None
    /\ failure.hops < MaxHops
    /\ failure' = [failure EXCEPT !.hops = @ + 1]
    /\ UNCHANGED <<msgVars, call, sent, handled, onceVars, factoryVars>>

\* a layer reports an unmarked failure through the facade and marks it
ReportAndMark ==
    /\ failure # None
    /\ ~IsHandled(failure.exc)
    /\ failure.hops < MaxHops
    /\ failure' = [failure EXCEPT !.exc = "BBHandledException", !.hops = @ + 1,
                                  !.wasMarked = TRUE, !.reports = @ + 1]
    /\ UNCHANGED <<msgVars, call, sent, handled, onceVars, factoryVars>>

\* the top-level handler: silent for a marked failure, full detail otherwise
TerminalHandler ==
    /\ failure # None
    /\ handled' = [exc |-> failure.exc, origin |-> failure.origin,
                   hops |-> failure.hops, wasMarked |-> failure.wasMarked,
                   before |-> failure.reports,
                   diagnostics |-> IF IsHandled(failure.exc) THEN 0 ELSE 1]
    /\ failure' = None
    /\ UNCHANGED <<msgVars, call, sent, onceVars, factoryVars>>

----------------------------------------------------------------------------
(* The state after import of the module, under each configuration that     *)
(* bb.msg and bb.event can hold.                                           *)

Families == {"warnonce", "erroronce"}
OnceBodies == {"disk full", "x"}

OnceIdle ==
    /\ pc = [t \in 1..MaxThreads |-> "idle"]
    /\ pending = [t \in 1..MaxThreads |-> None]
    /\ seen = {}
    /\ sink = <<>>
    /\ completed = [p \in Families \X OnceBodies |-> 0]

FactoryIdle ==
    /\ inst = [n \in {"_ctx"} |-> "fork"]
    /\ ctxNames = {}
    /\ mpNames = {}

Init ==
    /\ worker_pid \in {0, 4242}
    /\ loggerDefaultDomains \in UNION {[D -> Thresholds] : D \in SUBSET LoggerNames}
    /\ loggerDefaultLogLevel \in Floors
    /\ call = NoCall
    /\ sent = <<>>
    /\ failure = None
    /\ handled = None
    /\ OnceIdle
    /\ FactoryIdle

Next ==
    \/ Debug
    \/ LoggerDebug
    \/ LoggerVerbose
    \/ Plain
    \/ Note
    \/ Verbnote
    \/ Warn
    \/ Error
    \/ Fatal
    \/ RaiseOther
    \/ Forward
    \/ ReportAndMark
    \/ TerminalHandler

Spec == Init /\ [][Next]_vars

----------------------------------------------------------------------------
(* warnonce / erroronce under threads. The facade makes the record; the    *)
(* show-once filter on the way to the sink keeps the first record of each  *)
(* (level, body) and drops the rest.                                       *)

warnonce(args) == Returned(LoggerLog(mainlogger, IntLvl(WARNONCE), Join(args), {}))

erroronce(args) == Returned(LoggerLog(mainlogger, IntLvl(ERRORONCE), Join(args), {}))

RECURSIVE SumOver(_)
SumOver(S) == IF S = {} THEN 0
              ELSE LET p == CHOOSE q \in S : TRUE
                   IN completed[p] + SumOver(S \ {p})

\* calls made so far: those that returned and those still inside the filter
OnceCalls == SumOver(Families \X OnceBodies)
             + Cardinality({t \in 1..MaxThreads : pc[t] # "idle"})

Begin(t, fam, body, o) ==
    /\ pc[t] = "idle"
    /\ pc' = [pc EXCEPT ![t] = "filter"]
    /\ pending' = [pending EXCEPT ![t] = [fam |-> fam, body |-> body, recs |-> o.sent]]
    /\ UNCHANGED <<msgVars, call, sent, failure, handled, seen, sink, completed,
                   factoryVars>>

Warnonce ==
    /\ OnceCalls < MaxOnceCalls
    /\ \E t \in 1..MaxThreads, body \in OnceBodies :
         Begin(t, "warnonce", body, warnonce(<<body>>))

Erroronce ==
    /\ OnceCalls < MaxOnceCalls
    /\ \E t \in 1..MaxThreads, body \in OnceBodies :
         Begin(t, "erroronce", body, erroronce(<<body>>))

\* shouldEmitOnce: test and insert in one step
ShowOnce ==
    \E t \in 1..MaxThreads :
        /\ pc[t] = "filter"
        /\ LET recs == pending[t].recs
               key == <<recs[1].levelno, recs[1].msg>>
           IN IF recs = <<>> \/ key \in seen
              THEN UNCHANGED <<seen, sink>>
              ELSE /\ seen' = seen \cup {key}
                   /\ sink' = Append(sink, recs[1])
        /\ completed' = [completed EXCEPT ![<<pending[t].fam, pending[t].body>>] = @ + 1]
        /\ pc' = [pc EXCEPT ![t] = "idle"]
        /\ pending' = [pending EXCEPT ![t] = None]
        /\ UNCHANGED <<msgVars, call, sent, failure, handled, factoryVars>>

OnceInit ==
    /\ worker_pid = 0
    /\ loggerDefaultDomains = <<>>
    /\ loggerDefaultLogLevel = INFO
    /\ call = NoCall
    /\ sent = <<>>
    /\ failure = None
    /\ handled = None
    /\ OnceIdle
    /\ FactoryIdle

OnceNext ==
    \/ Warnonce
    \/ Erroronce
    \/ ShowOnce

OnceSpec == OnceInit /\ [][OnceNext]_vars

----------------------------------------------------------------------------
(* MultiprocessingContext: the proxy in front of the "fork" context and    *)
(* the multiprocessing module.                                             *)

PrimNames == {"Lock", "Queue", "cpu_count"}
AttrNames == PrimNames \cup {"_ctx"}
AttrValues == {"mp", "mine"}

\* hasattr(provider, name)
HasAttr(provider, name) ==
    CASE provider = "fork" -> name \in ctxNames
      [] provider = "mp" -> name \in mpNames
      [] OTHER -> FALSE

Found(provider, name) == [raised |-> "none", from |-> provider, name |-> name]
NotFound(name) == [raised |-> "AttributeError", from |-> "nowhere", name |-> name]

\* __getattr__ asking the multiprocessing module first
getattr_generic_first(name) ==
    IF HasAttr("mp", name)
    THEN Found("mp", name)
    ELSE IF HasAttr(inst["_ctx"], name) THEN Found(inst["_ctx"], name) ELSE NotFound(name)

\* __getattr__(self, name)
MultiprocessingContext_getattr(name) ==
    IF HasAttr(inst["_ctx"], name)
    THEN Found(inst["_ctx"], name)
    ELSE IF HasAttr("mp", name) THEN Found("mp", name) ELSE NotFound(name)

\* attribute access on the proxy: the instance's own __dict__ comes first,
\* __getattr__ only for a name not found there
GetAttribute(name) ==
    IF name \in DOMAIN inst
    THEN [raised |-> "none", from |-> "instance", name |-> inst[name]]
    ELSE MultiprocessingContext_getattr(name)

\* __setattr__ storing the value
setattr_stores(name, value) ==
    [inst |-> [n \in DOMAIN inst \cup {name} |-> IF n = name THEN value ELSE inst[n]],
     raised |-> "none"]

\* __setattr__(self, name, value): the new __dict__ and the exception raised
MultiprocessingContext_setattr(name, value) ==
    [inst |-> inst, raised |-> "AttributeError"]

Get ==
    \E name \in AttrNames :
        /\ call' = [op |-> "get", name |-> name, value |-> "",
                    result |-> GetAttribute(name)]
        /\ UNCHANGED <<msgVars, sent, failure, handled, onceVars, factoryVars>>

SetAttr ==
    \E name \in AttrNames, value \in AttrValues :
        LET o == MultiprocessingContext_setattr(name, value)
        IN /\ inst' = o.inst
           /\ call' = [op |-> "setattr", name |-> name, value |-> value,
                       result |-> [raised |-> o.raised, from |-> "nowhere", name |-> name]]
           /\ UNCHANGED <<msgVars, sent, failure, handled, onceVars, ctxNames, mpNames>>

FactoryInit ==
    /\ worker_pid = 0
    /\ loggerDefaultDomains = <<>>
    /\ loggerDefaultLogLevel = INFO
    /\ call = NoCall
    /\ sent = <<>>
    /\ failure = None
    /\ handled = None
    /\ OnceIdle
    /\ inst = [n \in {"_ctx"} |-> "fork"]
    /\ ctxNames \in SUBSET PrimNames
    /\ mpNames \in SUBSET PrimNames

FactoryNext ==
    \/ Get
    \/ SetAttr

FactorySpec == FactoryInit /\ [][FactoryNext]_vars

----------------------------------------------------------------------------
(* What the claims speak of. *)

IsDebugCall == call.op \in {"debug", "bbdebug"}

\* the level debug() hands to bbdebug, and the text
Coerced == IF call.lvl.k = "str" THEN IntLvl(1) ELSE call.lvl
Text == IF call.lvl.k = "str" THEN call.lvl.s \o Join(call.args) ELSE Join(call.args)

\* the call was made with an integer level >= 1 (a str counts as 1)
PositiveInt == Coerced.k = "int" /\ Coerced.v >= 1

InTable == call.name \in DOMAIN loggerDefaultDomains

\* the call's own record reached the handlers, once, at severity l
EmittedAt(l) ==
    Cardinality({i \in 1..Len(sent) :
        sent[i] = Record(call.name, l, Text, {})}) = 1

\* no record but warnings about the call itself reached the handlers
NothingEmitted == \A i \in 1..Len(sent) : sent[i].levelno = 30

Warned == \E i \in 1..Len(sent) : sent[i].levelno = 30 /\ sent[i].name = mainlogger

----------------------------------------------------------------------------
----------------------------------------------------------------------------
\* C3 as stated: in the controller, for a logger with a table entry T and a
\* level n >= 1, debug(n, msg) emits exactly when DEBUG - n + 1 <= T.
C3_Original ==
    (IsDebugCall /\ worker_pid = 0 /\ InTable /\ PositiveInt) =>
        (EmittedAt(10 - Coerced.v + 1)
            <=> 10 - Coerced.v + 1 <= loggerDefaultDomains[call.name])

\* C3 amended: in the controller, for a logger with a table entry T and a
\* level n >= 1, debug(n, msg) emits exactly when DEBUG - n + 1 <= T and
\* DEBUG - n + 1 is neither below the global floor nor below the BitBake
\* logger's own level DEBUG - 2; otherwise nothing is emitted. With T = 2
\* neither debug(3, "x") nor debug(1, "x") emits.
C3_DomainAndFloor ==
    (IsDebugCall /\ worker_pid = 0 /\ InTable /\ PositiveInt) =>
        LET eff == 10 - Coerced.v + 1
            T == loggerDefaultDomains[call.name]
            pass == eff <= T /\ eff >= loggerDefaultLogLevel /\ eff >= 10 - 2
        IN /\ pass => EmittedAt(eff)
           /\ ~pass => NothingEmitted
           /\ T = 2 => NothingEmitted

C3_Witness ==
    /\ IsDebugCall /\ worker_pid = 0 /\ InTable /\ PositiveInt
    /\ loggerDefaultDomains[call.name] = 9
    /\ Coerced.v = 2
    /\ EmittedAt(9)

----------------------------------------------------------------------------
\* C4 as stated: in a worker every debug(n, msg) with n >= 1 emits a record
\* and never reads the domain table.
C4_Original ==
    (IsDebugCall /\ worker_pid # 0 /\ PositiveInt) =>
        (EmittedAt(10 - Coerced.v + 1) /\ ~call.looked)

\* C4 amended: in a worker, whatever the table and the floor, debug(n, msg)
\* emits its record for 1 <= n <= 3 (the levels the BitBake logger's own level
\* DEBUG - 2 lets through) and emits nothing for n >= 4; the domain table is
\* never read.
C4_WorkerEmits ==
    (IsDebugCall /\ worker_pid # 0) =>
        /\ ~call.looked
        /\ (PositiveInt /\ Coerced.v <= 3) => EmittedAt(10 - Coerced.v + 1)
        /\ (PositiveInt /\ Coerced.v >= 4) => NothingEmitted

C4_Witness ==
    /\ IsDebugCall /\ worker_pid # 0 /\ InTable
    /\ loggerDefaultDomains[call.name] = 2
    /\ loggerDefaultLogLevel = INFO
    /\ Coerced.v = 3
    /\ EmittedAt(8)

----------------------------------------------------------------------------
\* C7 as stated: debug() called with a level that is no positive integer
\* warns, goes on as debug(1, ...) and returns normally.
C7_MalformedLevel ==
    (call.op = "debug" /\ ~(call.lvl.k = "int" /\ call.lvl.v >= 1)) =>
        /\ call.raised = "none"
        /\ Warned
        /\ \A i \in 1..Len(sent) : sent[i].levelno \in {30, 10}
        /\ call.proceeded <=> ~Filtered(mainlogger, 10)

----------------------------------------------------------------------------
\* C9: in the controller a debug call reaches self.log only if the domain
\* check and the floor check both pass; a level below the floor is suppressed
\* whatever the table says; a logger without an entry is decided by the floor.
C9_BothChecks ==
    (IsDebugCall /\ worker_pid = 0 /\ call.raised = "none") =>
        LET eff == 10 - Coerced.v + 1
            domainOk == ~InTable \/ ~(eff > loggerDefaultDomains[call.name])
            floorOk == ~(eff < loggerDefaultLogLevel)
        IN /\ call.proceeded => (domainOk /\ floorOk)
           /\ ~floorOk => (~call.proceeded /\ NothingEmitted)
           /\ ~InTable => (call.proceeded <=> floorOk)
           /\ ~call.proceeded => NothingEmitted

C9_Witness ==
    /\ IsDebugCall /\ worker_pid = 0 /\ InTable
    /\ call.proceeded
    /\ loggerDefaultLogLevel = 9
    /\ EmittedAt(9)

----------------------------------------------------------------------------
\* C10: the severities are strictly ordered, DEBUG(n) = 10 - n + 1 falls as n
\* grows and stays below VERBOSE, and each call logs at the severity it is
\* named for.
C10_SeverityOrder ==
    /\ \A n \in 1..MaxLevel :
          /\ DebugLevel(n) = 10 - n + 1
          /\ DebugLevel(n + 1) < DebugLevel(n)
          /\ DebugLevel(n) < VERBOSE
    /\ VERBOSE < INFO /\ INFO < PLAIN /\ PLAIN < VERBNOTE /\ VERBNOTE < WARNONCE
    /\ WARNONCE < WARNING /\ WARNING < ERRORONCE /\ ERRORONCE < ERROR
    /\ ERROR < CRITICAL
    /\ VERBOSE = INFO - 1 /\ PLAIN = INFO + 1
    /\ WARNONCE = WARNING - 1 /\ ERRORONCE = ERROR - 1
    /\ \A i \in 1..Len(sent) :
          /\ call.op = "verbose" => sent[i].levelno = 19
          /\ call.op = "note" => sent[i].levelno = 20
          /\ call.op = "plain" => sent[i].levelno = 21
          /\ call.op = "verbnote" => sent[i].levelno = 22
          /\ call.op = "warn" => sent[i].levelno = 30
          /\ call.op = "error" => sent[i].levelno = 40
          /\ call.op = "fatal" => sent[i].levelno = 50
          /\ (IsDebugCall /\ sent[i].levelno # 30)
                => sent[i].levelno = 10 - Coerced.v + 1

C10_Witness ==
    /\ call.op = "verbnote"
    /\ Len(sent) = 1
    /\ sent[1].levelno = 22
    /\ sent[1].levelno > PLAIN
    /\ sent[1].levelno < WARNONCE

----------------------------------------------------------------------------
\* C8: a failure that was marked (fatal's always is) is still marked when the
\* top-level handler gets it, after any number of forwarding layers, and the
\* handler then emits nothing; an unmarked failure gets its diagnostic from
\* the handler exactly once. A marked failure never becomes unmarked.
C8_MarkedStaysMarked ==
    /\ failure # None =>
          /\ failure.wasMarked => IsHandled(failure.exc)
          /\ failure.origin = "fatal" => (failure.wasMarked /\ failure.reports = 1)
    /\ handled # None =>
          /\ handled.wasMarked => (IsHandled(handled.exc) /\ handled.diagnostics = 0)
          /\ handled.origin = "fatal" =>
                (handled.wasMarked /\ handled.before = 1 /\ handled.diagnostics = 0)
          /\ ~handled.wasMarked => (handled.before = 0 /\ handled.diagnostics = 1)

C8_Witness ==
    /\ handled # None
    /\ handled.origin = "fatal"
    /\ handled.hops = MaxHops
    /\ handled.diagnostics = 0
    /\ call.op = "fatal"

----------------------------------------------------------------------------
\* C2: each (family, body) that some call has logged reaches the sink exactly
\* once, however often and from however many threads it is called; warnonce and
\* erroronce with the same body get one record each.
OnceRecords(fam, body) ==
    {i \in 1..Len(sink) :
        /\ sink[i].levelno = (IF fam = "warnonce" THEN 30 - 1 ELSE 40 - 1)
        /\ sink[i].msg = body}

C2_EmittedOnce ==
    \A fam \in Families, body \in OnceBodies :
        /\ Cardinality(OnceRecords(fam, body)) <= 1
        /\ completed[<<fam, body>>] >= 1 => Cardinality(OnceRecords(fam, body)) = 1

C2_Witness ==
    /\ completed[<<"warnonce", "disk full">>] >= 3
    /\ completed[<<"erroronce", "disk full">>] >= 2
    /\ Cardinality(OnceRecords("warnonce", "disk full")) = 1
    /\ Cardinality(OnceRecords("erroronce", "disk full")) = 1
    /\ Len(sink) = 2

----------------------------------------------------------------------------
\* C5: get(name) gives the fork context's primitive whenever the fork context
\* defines the name, the multiprocessing module's when only that defines it, and
\* raises AttributeError exactly when neither does.
C5_FastFirst ==
    (call.op = "get" /\ call.name \in PrimNames) =>
        /\ call.name \in ctxNames => call.result = Found("fork", call.name)
        /\ (call.name \notin ctxNames /\ call.name \in mpNames)
              => call.result = Found("mp", call.name)
        /\ call.result.raised = "AttributeError"
              <=> call.name \notin (ctxNames \cup mpNames)
        /\ call.name \in (ctxNames \cap mpNames) => call.result.from # "mp"

C5_Witness ==
    /\ call.op = "get"
    /\ call.name = "Lock"
    /\ "Lock" \in ctxNames \cap mpNames
    /\ call.result = Found("fork", "Lock")

----------------------------------------------------------------------------
\* C6: every attempt to rebind a name on the proxy, _ctx included, raises
\* AttributeError and leaves the instance, its bound context and the result of
\* every lookup as they were.
C6_RebindFails ==
    [][call'.op = "setattr" =>
          /\ call'.result.raised = "AttributeError"
          /\ inst' = inst
          /\ inst'["_ctx"] = "fork"
          /\ \A n \in AttrNames : GetAttribute(n)' = GetAttribute(n)]_vars

C6_Witness ==
    /\ call.op = "setattr"
    /\ call.name = "_ctx"
    /\ call.result.raised = "AttributeError"
    /\ inst["_ctx"] = "fork"

====
